---- MODULE Spec2Model ----
(***************************************************************************)
(* virtinitrd: the PID 1 of a virtual-machine guest's initramfs.           *)
(* do_init (src/main.rs) is modelled as one sequential process; every      *)
(* system call it makes is one step, applied to a model of the kernel      *)
(* state it acts on (mount tree, directories, device nodes, the process's  *)
(* root and working directory, open handles, loaded modules).              *)
(* Text (paths, the command line, file names) is kept as strings and       *)
(* handled character by character, as the code does.                       *)
(* Spec is a run of main; ParseSpec applies cmdline_get and                *)
(* cmdline_get_mounts on their own to every line of a bounded set.         *)
(***************************************************************************)
EXTENDS Integers, Sequences, FiniteSets, TLC

VARIABLES
    pc,                \* position of do_init / main
    kernel,            \* kernel state the system calls act on
    proc_cmdline,      \* content of /proc/cmdline (set by the boot loader)
    DEBUG,             \* static DEBUG: AtomicBool
    cmdline,           \* do_init: let cmdline
    entries,           \* load_kernel_modules: entries not yet enumerated
    module_paths,      \* load_kernel_modules: let mut module_paths
    lkm_result,        \* what load_kernel_modules returned: "none" before
    additional_mounts, \* do_init: let additional_mounts
    idx,               \* index of the loop the process is in
    ops,               \* the system calls made so far, with their results
    out,               \* lines written to stdout (debugln) and stderr
    exit_status,       \* whether main has returned, and the exit code
    call               \* a function applied on its own: its arguments and result

vars == <<pc, kernel, proc_cmdline, DEBUG, cmdline, entries, module_paths,
          lkm_result, additional_mounts, idx, ops, out, exit_status, call>>

-----------------------------------------------------------------------------
(* Bounds of the model.                                                    *)

\* at most this many entries in /usr/lib/modules
MaxDirEntries == 3

\* at most this many pieces in a command line the parsing functions are
\* applied to on their own
MaxPieces == 4

-----------------------------------------------------------------------------
(* Strings.                                                                *)

CharAt(s, i) == SubSeq(s, i, i)

\* char::is_whitespace, for the characters a command line holds
IsSpace(c) == c \in {" ", "\t", "\n"}

StartsWith(s, p) == Len(s) >= Len(p) /\ SubSeq(s, 1, Len(p)) = p

EndsWith(s, p) == Len(s) >= Len(p) /\ SubSeq(s, Len(s) - Len(p) + 1, Len(s)) = p

None == [some |-> FALSE, v |-> ""]

Some(x) == [some |-> TRUE, v |-> x]

\* Option::unwrap_or
UnwrapOr(o, d) == IF o.some THEN o.v ELSE d

\* str::strip_prefix
StripPrefix(s, p) ==
    IF StartsWith(s, p) THEN Some(SubSeq(s, Len(p) + 1, Len(s))) ELSE None

RECURSIVE TrimStart(_)
TrimStart(s) ==
    IF Len(s) > 0 /\ IsSpace(CharAt(s, 1))
    THEN TrimStart(SubSeq(s, 2, Len(s)))
    ELSE s

RECURSIVE TrimEnd(_)
TrimEnd(s) ==
    IF Len(s) > 0 /\ IsSpace(CharAt(s, Len(s)))
    THEN TrimEnd(SubSeq(s, 1, Len(s) - 1))
    ELSE s

\* str::trim
Trim(s) == TrimEnd(TrimStart(s))

\* the pieces of s between the characters of seps, the empty ones dropped
RECURSIVE SplitFrom(_, _, _, _)
SplitFrom(s, i, cur, seps) ==
    IF i > Len(s) THEN (IF cur = "" THEN <<>> ELSE <<cur>>)
    ELSE IF CharAt(s, i) \in seps
         THEN (IF cur = "" THEN <<>> ELSE <<cur>>) \o SplitFrom(s, i + 1, "", seps)
         ELSE SplitFrom(s, i + 1, cur \o CharAt(s, i), seps)

\* str::split_whitespace
SplitWhitespace(s) == SplitFrom(s, 1, "", {" ", "\t", "\n"})

\* the characters in ascending byte order (ASCII)
AsciiOrder == "\t\n -./0123456789=abcdefghijklmnopqrstuvwxyz"

RECURSIVE OrdFrom(_, _)
OrdFrom(c, i) ==
    IF i > Len(AsciiOrder) THEN i
    ELSE IF CharAt(AsciiOrder, i) = c THEN i ELSE OrdFrom(c, i + 1)

Ord(c) == OrdFrom(c, 1)

\* str::cmp(a, b) = Less: byte-wise lexicographic order
RECURSIVE StrLessFrom(_, _, _)
StrLessFrom(a, b, i) ==
    IF i > Len(b) THEN FALSE
    ELSE IF i > Len(a) THEN TRUE
    ELSE IF CharAt(a, i) = CharAt(b, i) THEN StrLessFrom(a, b, i + 1)
    ELSE Ord(CharAt(a, i)) < Ord(CharAt(b, i))

StrLess(a, b) == StrLessFrom(a, b, 1)

-----------------------------------------------------------------------------
(* Paths (std::path::Path).                                                *)

IsAbsolute(p) == StartsWith(p, "/")

\* the names between the slashes of a path
PathParts(p) == SplitFrom(p, 1, "", {"/"})

\* position of the last "." of s, 0 when it has none
RECURSIVE LastDot(_, _)
LastDot(s, i) ==
    IF i = 0 THEN 0 ELSE IF CharAt(s, i) = "." THEN i ELSE LastDot(s, i - 1)

\* Path::components without the root: interior and trailing "." are dropped,
\* a leading "." of a relative path is kept
RECURSIVE DropDots(_, _, _)
DropDots(parts, i, abs) ==
    IF i > Len(parts) THEN <<>>
    ELSE IF parts[i] = "." /\ (abs \/ i > 1) THEN DropDots(parts, i + 1, abs)
    ELSE <<parts[i]>> \o DropDots(parts, i + 1, abs)

Components(p) == DropDots(PathParts(p), 1, IsAbsolute(p))

\* Path::file_name: the last component when it is a normal name
file_name(p) ==
    LET cs == Components(p)
    IN  IF Len(cs) = 0 \/ cs[Len(cs)] \in {".", ".."} THEN None
        ELSE Some(cs[Len(cs)])

\* Path::extension: what follows the last "." of the file name; none when the
\* name has no "." or only a leading one
extension(p) ==
    LET f == file_name(p)
        d == LastDot(f.v, Len(f.v))
    IN  IF ~f.some \/ d <= 1 THEN None
        ELSE Some(SubSeq(f.v, d + 1, Len(f.v)))

-----------------------------------------------------------------------------
(* The kernel state the system calls act on.                               *)
(*   mounts   the mount tree: each mount has an id, the filesystem it      *)
(*            shows (fs), its parent mount and its mountpoint, a path in   *)
(*            the parent's filesystem (rootfs has parent 0)                *)
(*   dirs     the directories of each filesystem, <<fs, path>>; the root   *)
(*            directory of a filesystem always exists                      *)
(*   nodes    the files, device nodes and symlinks of each filesystem      *)
(*   root, cwd  the process's root and working directory (locations)       *)
(*   fds      the directory handles the process holds open                 *)
(*   modules  the modules inserted into the kernel                         *)
(* A path in a filesystem is the sequence of its names; a location is a    *)
(* mount and a path in its filesystem.                                     *)

Loc(m, p) == [mnt |-> m, path |-> p]

NoLoc == Loc(0, <<>>)

Result(e, k) == [err |-> e, k |-> k]

MountIds(k) == {m.id : m \in k.mounts}

MountById(k, id) == CHOOSE m \in k.mounts : m.id = id

FsAt(k, loc) == MountById(k, loc.mnt).fs

IsDir(k, loc) ==
    /\ loc.mnt \in MountIds(k)
    /\ loc.path = <<>> \/ <<FsAt(k, loc), loc.path>> \in k.dirs

NodesAt(k, loc) ==
    IF loc.mnt \in MountIds(k)
    THEN {n \in k.nodes : n.fs = FsAt(k, loc) /\ n.path = loc.path}
    ELSE {}

MountsOn(k, loc) == {m \in k.mounts : m.parent = loc.mnt /\ m.mp = loc.path}

\* follow the mounts stacked on a location up to the topmost one
RECURSIVE Climb(_, _)
Climb(k, loc) ==
    IF MountsOn(k, loc) = {} THEN loc
    ELSE Climb(k, Loc((CHOOSE m \in MountsOn(k, loc) : TRUE).id, <<>>))

\* ".." of a location: the parent directory, through the mountpoint when the
\* location is the root of a mount; the process's root is its own parent
RECURSIVE Up(_, _)
Up(k, loc) ==
    IF loc = k.root THEN loc
    ELSE IF loc.path # <<>>
         THEN Loc(loc.mnt, SubSeq(loc.path, 1, Len(loc.path) - 1))
         ELSE LET m == MountById(k, loc.mnt)
              IN  IF m.parent = 0 THEN loc ELSE Up(k, Loc(m.parent, m.mp))

\* path lookup, name by name; the mount stacked on a directory is entered
\* when the directory is reached by name, not when the walk starts on it
RECURSIVE WalkFrom(_, _, _, _)
WalkFrom(k, loc, parts, i) ==
    IF i > Len(parts) THEN [err |-> "OK", loc |-> loc]
    ELSE IF ~IsDir(k, loc) THEN [err |-> "ENOTDIR", loc |-> NoLoc]
    ELSE IF parts[i] = "." THEN WalkFrom(k, loc, parts, i + 1)
    ELSE IF parts[i] = ".."
         THEN WalkFrom(k, IF Up(k, loc) = k.root THEN k.root ELSE Climb(k, Up(k, loc)),
                       parts, i + 1)
    ELSE LET child == Loc(loc.mnt, Append(loc.path, parts[i]))
         IN  IF IsDir(k, child) THEN WalkFrom(k, Climb(k, child), parts, i + 1)
             ELSE IF NodesAt(k, child) # {} THEN WalkFrom(k, child, parts, i + 1)
             ELSE [err |-> "ENOENT", loc |-> NoLoc]

Walk(k, p) ==
    IF p = "" THEN [err |-> "ENOENT", loc |-> NoLoc]
    ELSE WalkFrom(k, IF IsAbsolute(p) THEN k.root ELSE k.cwd, PathParts(p), 1)

\* Path::exists
Exists(k, p) == Walk(k, p).err = "OK"

\* Path::is_file
is_file(k, p) ==
    /\ Exists(k, p)
    /\ \E n \in NodesAt(k, Walk(k, p).loc) : n.kind = "file"

\* the names a directory holds
DirNames(k, loc) ==
    {d[2][Len(d[2])] : d \in {x \in k.dirs : /\ x[1] = FsAt(k, loc)
                                            /\ Len(x[2]) = Len(loc.path) + 1
                                            /\ SubSeq(x[2], 1, Len(loc.path)) = loc.path}}
    \cup
    {n.path[Len(n.path)] : n \in {x \in k.nodes : /\ x.fs = FsAt(k, loc)
                                                  /\ Len(x.path) = Len(loc.path) + 1
                                                  /\ SubSeq(x.path, 1, Len(loc.path)) = loc.path}}

\* a mount and all the mounts below it
RECURSIVE Subtree(_, _)
Subtree(k, ids) ==
    LET more == ids \cup {m.id : m \in {x \in k.mounts : x.parent \in ids}}
    IN  IF more = ids THEN ids ELSE Subtree(k, more)

FreshId(k) == CHOOSE i \in 1..(Cardinality(k.mounts) + 1) : i \notin MountIds(k)

\* the tags the hypervisor exports as virtio-fs shares
HostTags == {"rootfs", "r", "a", "b"}

\* the filesystem instance a mount request shows: one per tag for virtiofs,
\* a new one per tmpfs mount, the single instance of sysfs, proc, devtmpfs
FsKey(fstype, source, target) ==
    IF fstype = "virtiofs" THEN "virtiofs:" \o source
    ELSE IF fstype = "tmpfs" THEN "tmpfs:" \o target
    ELSE fstype

\* mount(2) of a new filesystem; top are the directories the filesystem
\* holds at its top when it is first shown
sys_mount(k, source, target, fstype, flags, top) ==
    LET w  == Walk(k, target)
        t  == Climb(k, w.loc)
        fs == FsKey(fstype, source, target)
        m  == [id |-> FreshId(k), fs |-> fs, parent |-> t.mnt, mp |-> t.path,
               flags |-> flags, source |-> source, fstype |-> fstype]
    IN  IF w.err # "OK" THEN Result(w.err, k)
        ELSE IF ~IsDir(k, t) THEN Result("ENOTDIR", k)
        ELSE IF fstype = "virtiofs" /\ source \notin HostTags THEN Result("EINVAL", k)
        ELSE IF FsAt(k, t) = fs /\ t.path = <<>> THEN Result("EBUSY", k)
        ELSE Result("OK", [k EXCEPT
                 !.mounts = @ \cup {m},
                 !.dirs = IF \E x \in k.mounts : x.fs = fs THEN @
                          ELSE @ \cup {<<fs, <<d>>>> : d \in top}])

\* mount(2) with MS_MOVE: re-parent the mount whose root source names
sys_move_mount(k, source, target) ==
    LET ws == Walk(k, source)
        wt == Walk(k, target)
        t  == Climb(k, wt.loc)
        m  == MountById(k, ws.loc.mnt)
    IN  IF ws.err # "OK" THEN Result(ws.err, k)
        ELSE IF wt.err # "OK" THEN Result(wt.err, k)
        ELSE IF ws.loc.path # <<>> \/ m.parent = 0 THEN Result("EINVAL", k)
        ELSE IF ~IsDir(k, t) THEN Result("ENOTDIR", k)
        ELSE IF t.mnt \in Subtree(k, {m.id}) THEN Result("ELOOP", k)
        ELSE Result("OK", [k EXCEPT
                 !.mounts = (@ \ {m}) \cup {[m EXCEPT !.parent = t.mnt, !.mp = t.path]}])

\* umount(2), no flags: a mount with mounts below it, or in use, is busy
sys_umount(k, target) ==
    LET w == Walk(k, target)
        m == MountById(k, w.loc.mnt)
    IN  IF w.err # "OK" THEN Result(w.err, k)
        ELSE IF w.loc.path # <<>> \/ m.parent = 0 THEN Result("EINVAL", k)
        ELSE IF \/ \E c \in k.mounts : c.parent = m.id
                \/ k.cwd.mnt = m.id
                \/ k.root.mnt = m.id
                \/ \E fd \in k.fds : fd.mnt = m.id
             THEN Result("EBUSY", k)
        ELSE Result("OK", [k EXCEPT !.mounts = @ \ {m}])

sys_chdir(k, p) ==
    LET w == Walk(k, p)
    IN  IF w.err # "OK" THEN Result(w.err, k)
        ELSE IF ~IsDir(k, w.loc) THEN Result("ENOTDIR", k)
        ELSE Result("OK", [k EXCEPT !.cwd = w.loc])

sys_chroot(k, p) ==
    LET w == Walk(k, p)
    IN  IF w.err # "OK" THEN Result(w.err, k)
        ELSE IF ~IsDir(k, w.loc) THEN Result("ENOTDIR", k)
        ELSE Result("OK", [k EXCEPT !.root = w.loc])

sys_open(k, p) ==
    LET w == Walk(k, p)
    IN  IF w.err # "OK" THEN Result(w.err, k)
        ELSE Result("OK", [k EXCEPT !.fds = @ \cup {w.loc}])

Node(fs, path, kind, target, dev, mode) ==
    [fs |-> fs, path |-> path, kind |-> kind, target |-> target, dev |-> dev, mode |-> mode]

\* the directory a new name is created in, and the name
ParentOf(p) ==
    LET parts == PathParts(p)
    IN  [dir  |-> SubSeq(parts, 1, Len(parts) - 1),
         name |-> parts[Len(parts)]]

\* creation of a node (mknod, symlink) at an absolute path
sys_create(k, p, kind, target, dev, mode) ==
    LET w     == WalkFrom(k, k.root, ParentOf(p).dir, 1)
        child == Loc(w.loc.mnt, Append(w.loc.path, ParentOf(p).name))
    IN  IF w.err # "OK" THEN Result(w.err, k)
        ELSE IF ~IsDir(k, w.loc) THEN Result("ENOTDIR", k)
        ELSE IF IsDir(k, child) \/ NodesAt(k, child) # {} THEN Result("EEXIST", k)
        ELSE IF "MS_RDONLY" \in MountById(k, w.loc.mnt).flags THEN Result("EROFS", k)
        ELSE Result("OK", [k EXCEPT
                 !.nodes = @ \cup {Node(FsAt(k, w.loc), child.path, kind, target, dev, mode)}])

\* the environment may fail a call the model would let succeed
Inject(k, r, fault) == IF r.err = "OK" /\ fault THEN Result("EIO", k) ELSE r

\* fs::create_dir_all: make every missing directory of an absolute path
RECURSIVE CreateDirAllFrom(_, _, _, _)
CreateDirAllFrom(k, loc, parts, i) ==
    IF i > Len(parts) THEN Result("OK", k)
    ELSE LET child == Loc(loc.mnt, Append(loc.path, parts[i]))
         IN  IF IsDir(k, child) THEN CreateDirAllFrom(k, Climb(k, child), parts, i + 1)
             ELSE IF NodesAt(k, child) # {} THEN Result("ENOTDIR", k)
             ELSE IF "MS_RDONLY" \in MountById(k, loc.mnt).flags THEN Result("EROFS", k)
             ELSE CreateDirAllFrom(
                      [k EXCEPT !.dirs = @ \cup {<<FsAt(k, loc), child.path>>}],
                      child, parts, i + 1)

create_dir_all(k, p) == CreateDirAllFrom(k, k.root, PathParts(p), 1)

-----------------------------------------------------------------------------
(* The program's pure functions.                                           *)

\* cmdline_get where the last parameter of the key wins
RECURSIVE CmdlineGetFrom_last(_, _, _)
CmdlineGetFrom_last(params, i, key) ==
    IF i > Len(params) THEN None
    ELSE LET rest == CmdlineGetFrom_last(params, i + 1, key)
         IN  IF rest.some THEN rest
             ELSE IF params[i] = key THEN Some("")
             ELSE StripPrefix(params[i], key \o "=")

\* fn cmdline_get: the first parameter that is key or starts with key=
RECURSIVE CmdlineGetFrom(_, _, _)
CmdlineGetFrom(params, i, key) ==
    IF i > Len(params) THEN None
    ELSE IF params[i] = key THEN Some("")
    ELSE IF StripPrefix(params[i], key \o "=").some
         THEN Some(StripPrefix(params[i], key \o "=").v)
    ELSE CmdlineGetFrom(params, i + 1, key)

cmdline_get(line, key) == CmdlineGetFrom(SplitWhitespace(line), 1, key)

\* cmdline_get_mounts without the tests of tag.is_empty()
RECURSIVE CmdlineGetMountsFrom_keep_empty(_, _)
CmdlineGetMountsFrom_keep_empty(params, i) ==
    IF i > Len(params) THEN <<>>
    ELSE LET rw == StripPrefix(params[i], "mount=")
             ro == StripPrefix(params[i], "mount-ro=")
             this == IF rw.some THEN <<[tag |-> rw.v, read_only |-> FALSE]>>
                     ELSE IF ro.some THEN <<[tag |-> ro.v, read_only |-> TRUE]>>
                     ELSE <<>>
         IN  this \o CmdlineGetMountsFrom_keep_empty(params, i + 1)

\* fn cmdline_get_mounts: the (tag, read_only) of every mount= and mount-ro=
RECURSIVE CmdlineGetMountsFrom(_, _)
CmdlineGetMountsFrom(params, i) ==
    IF i > Len(params) THEN <<>>
    ELSE LET rw == StripPrefix(params[i], "mount=")
             ro == StripPrefix(params[i], "mount-ro=")
             this == IF rw.some
                     THEN (IF rw.v # "" THEN <<[tag |-> rw.v, read_only |-> FALSE]>> ELSE <<>>)
                     ELSE IF ro.some
                     THEN (IF ro.v # "" THEN <<[tag |-> ro.v, read_only |-> TRUE]>> ELSE <<>>)
                     ELSE <<>>
         IN  this \o CmdlineGetMountsFrom(params, i + 1)

\* cmdline_get_mounts that keeps the first entry of a tag only
RECURSIVE Dedup(_, _)
Dedup(s, seen) ==
    IF s = <<>> THEN <<>>
    ELSE IF Head(s).tag \in seen THEN Dedup(Tail(s), seen)
    ELSE <<Head(s)>> \o Dedup(Tail(s), seen \cup {Head(s).tag})

cmdline_get_mounts_dedup(line) ==
    Dedup(CmdlineGetMountsFrom(SplitWhitespace(line), 1), {})

cmdline_get_mounts(line) == CmdlineGetMountsFrom(SplitWhitespace(line), 1)

\* the key of the comparator of module_paths.sort_by
SortKey(p) == UnwrapOr(file_name(p), "")

\* sort_by is stable: x goes after the elements that are not greater
RECURSIVE InsertSorted(_, _)
InsertSorted(s, x) ==
    IF s = <<>> THEN <<x>>
    ELSE IF StrLess(SortKey(x), SortKey(Head(s))) THEN <<x>> \o s
    ELSE <<Head(s)>> \o InsertSorted(Tail(s), x)

\* module_paths left in the order of the enumeration
sort_by_nothing(s) == s

RECURSIVE sort_by(_)
sort_by(s) ==
    IF s = <<>> THEN <<>>
    ELSE InsertSorted(sort_by(SubSeq(s, 1, Len(s) - 1)), s[Len(s)])

\* Path::parent of an absolute path of at least one name
path_parent(p) ==
    LET cs == Components(p)
        RECURSIVE Join(_)
        Join(i) == IF i >= Len(cs) THEN "" ELSE "/" \o cs[i] \o Join(i + 1)
    IN  IF Len(cs) <= 1 THEN "/" ELSE Join(1)

-----------------------------------------------------------------------------
(* The program's tables.                                                   *)

required_dirs == <<"/sysroot", "/sys", "/dev", "/proc", "/run", "/tmp">>

\* api_mounts with proc mounted last
api_mounts_proc_last ==
    << [source |-> "sysfs", target |-> "/sys", fstype |-> "sysfs",
        flags |-> {"MS_NOSUID", "MS_NOEXEC", "MS_NODEV"}, data |-> ""],
       [source |-> "devtmpfs", target |-> "/dev", fstype |-> "devtmpfs",
        flags |-> {"MS_NOSUID"}, data |-> "seclabel,mode=0755,size=4m"],
       [source |-> "tmpfs", target |-> "/run", fstype |-> "tmpfs",
        flags |-> {"MS_NOSUID", "MS_NODEV"}, data |-> "seclabel,mode=0755,size=64m"],
       [source |-> "tmpfs", target |-> "/tmp", fstype |-> "tmpfs",
        flags |-> {"MS_NOSUID", "MS_NODEV"}, data |-> "seclabel,mode=0755,size=128m"],
       [source |-> "proc", target |-> "/proc", fstype |-> "proc",
        flags |-> {"MS_NOSUID", "MS_NOEXEC", "MS_NODEV"}, data |-> ""] >>

api_mounts ==
    << [source |-> "sysfs", target |-> "/sys", fstype |-> "sysfs",
        flags |-> {"MS_NOSUID", "MS_NOEXEC", "MS_NODEV"}, data |-> ""],
       [source |-> "devtmpfs", target |-> "/dev", fstype |-> "devtmpfs",
        flags |-> {"MS_NOSUID"}, data |-> "seclabel,mode=0755,size=4m"],
       [source |-> "proc", target |-> "/proc", fstype |-> "proc",
        flags |-> {"MS_NOSUID", "MS_NOEXEC", "MS_NODEV"}, data |-> ""],
       [source |-> "tmpfs", target |-> "/run", fstype |-> "tmpfs",
        flags |-> {"MS_NOSUID", "MS_NODEV"}, data |-> "seclabel,mode=0755,size=64m"],
       [source |-> "tmpfs", target |-> "/tmp", fstype |-> "tmpfs",
        flags |-> {"MS_NOSUID", "MS_NODEV"}, data |-> "seclabel,mode=0755,size=128m"] >>

devices ==
    << [path |-> "/dev/kvm", major |-> 10, minor |-> 232, mode |-> "0660"],
       [path |-> "/dev/loop-control", major |-> 10, minor |-> 237, mode |-> "0660"],
       [path |-> "/dev/fuse", major |-> 10, minor |-> 229, mode |-> "0666"] >>

symlinks ==
    << [link_path |-> "/dev/fd", target |-> "/proc/self/fd"],
       [link_path |-> "/dev/stdin", target |-> "/proc/self/fd/0"],
       [link_path |-> "/dev/stdout", target |-> "/proc/self/fd/1"],
       [link_path |-> "/dev/stderr", target |-> "/proc/self/fd/2"] >>

surviving_mounts == <<"/run", "/dev", "/proc", "/sys", "/tmp">>

modules_dir == "/usr/lib/modules"

newroot == "/sysroot"

default_rootfs_tag == "rootfs"

default_init == "/bin/sh"

-----------------------------------------------------------------------------
(* What the program starts in.                                             *)

\* the contents /proc/cmdline may have
CmdLines ==
    { "\n",
      "debug rootfs=r mount-ro=a\n",
      "mount=a mount-ro=b\n",
      "mount=a  mount=a\n",
      "mount-ro=b mount= debug=1\n",
      "rootfs init=/sbin/init\n",
      "rootfs=x mount=a\n",
      "init=/sbin/init mount=rootfs\n",
      "init=/\n" }

\* what /usr/lib/modules may hold
DirEntries ==
    { [name |-> "b.ko", kind |-> "file"],
      [name |-> "a.ko", kind |-> "file"],
      [name |-> "c.txt", kind |-> "file"],
      [name |-> "d.ko", kind |-> "dir"],
      [name |-> ".ko", kind |-> "file"] }

\* the directories of the initramfs; the program makes the missing ones
InitramfsDirs == { <<"dev">>, <<"proc">>, <<"sys">>, <<"usr">>, <<"usr", "lib">> }

ModulesPath == <<"usr", "lib", "modules">>

RootMount ==
    [id |-> 1, fs |-> "rootfs", parent |-> 0, mp |-> <<>>, flags |-> {},
     source |-> "rootfs", fstype |-> "rootfs"]

\* the names a new root may hold a directory for
TopNames == {"run", "dev", "proc", "sys", "tmp"}

\* has_dir: /usr/lib/modules is a directory, holding content; is_a_file: it
\* is a regular file instead
InitKernel(has_dir, is_a_file, content) ==
    [ mounts  |-> {RootMount},
      dirs    |-> {<<"rootfs", d>> : d \in InitramfsDirs}
                  \cup (IF has_dir THEN {<<"rootfs", ModulesPath>>} ELSE {})
                  \cup {<<"rootfs", Append(ModulesPath, e.name)>> :
                           e \in {x \in content : x.kind = "dir"}},
      nodes   |-> {Node("proc", <<"cmdline">>, "file", "", <<0, 0>>, "")}
                  \cup (IF is_a_file
                        THEN {Node("rootfs", ModulesPath, "file", "", <<0, 0>>, "")}
                        ELSE {})
                  \cup {Node("rootfs", Append(ModulesPath, e.name), "file", "", <<0, 0>>, "") :
                           e \in {x \in content : x.kind = "file"}},
      root    |-> Loc(1, <<>>),
      cwd     |-> Loc(1, <<>>),
      fds     |-> {},
      modules |-> <<>> ]

\* the configurations a run starts from: every command line with the base
\* module directory, and every module directory with the base command line
BaseCmdLine == "\n"

BaseDir == {[name |-> "a.ko", kind |-> "file"]}

DirContents == {c \in SUBSET DirEntries : Cardinality(c) <= MaxDirEntries}

\* no function is applied on its own in a run of do_init
NoCall == [fn |-> "none", line |-> "", key |-> "", ret |-> None, mounts |-> <<>>]

Init ==
    /\ pc = "mkdirs"
    /\ idx = 1
    /\ \E line \in CmdLines, has_dir \in BOOLEAN, is_a_file \in BOOLEAN,
          content \in DirContents :
          /\ line = BaseCmdLine \/ (has_dir /\ content = BaseDir)
          /\ ~has_dir => content = {}
          /\ is_a_file => (~has_dir /\ line = BaseCmdLine)
          /\ proc_cmdline = line
          /\ kernel = InitKernel(has_dir, is_a_file, content)
    /\ DEBUG = FALSE
    /\ cmdline = ""
    /\ entries = {}
    /\ module_paths = <<>>
    /\ lkm_result = "none"
    /\ additional_mounts = <<>>
    /\ ops = <<>>
    /\ out = <<>>
    /\ exit_status = [exited |-> FALSE, code |-> 0]
    /\ call = NoCall

-----------------------------------------------------------------------------
(* The steps of do_init.                                                   *)

\* a system call as ops records it
Op(op, source, target, fstype, flags, err) ==
    [op |-> op, source |-> source, target |-> target, fstype |-> fstype,
     flags |-> flags, err |-> err, argv |-> <<>>]

\* println! and eprintln!: a line on standard output (1), on standard error (2)
println(lines, msg) == Append(lines, [fd |-> 1, text |-> msg])

eprintln(lines, msg) == Append(lines, [fd |-> 2, text |-> msg])

\* debugln! without the test of the flag
debugln_always(lines, msg) == println(lines, msg)

\* macro debugln!: the line is written when DEBUG is set
debugln(lines, msg) == IF DEBUG THEN println(lines, msg) ELSE lines

\* fn mkdir_p
mkdir_p(k, path, fault) ==
    IF Exists(k, path) THEN Result("OK", k)
    ELSE Inject(k, create_dir_all(k, path), fault)

\* Try with the error dropped (let _ = ...): do_init goes on after a failure
Try_ignoring(err, next_pc, next_idx) ==
    /\ pc' = next_pc
    /\ idx' = next_idx

\* Try with a failed call made again
Try_again(err, next_pc, next_idx) ==
    /\ pc' = IF err = "OK" THEN next_pc ELSE pc
    /\ idx' = IF err = "OK" THEN next_idx ELSE idx

\* the ? operator of do_init: an error ends do_init, which returns it
Try(err, next_pc, next_idx) ==
    /\ pc' = IF err = "OK" THEN next_pc ELSE "failed"
    /\ idx' = IF err = "OK" THEN next_idx ELSE idx

\* for dir in &dirs { mkdir_p(dir)?; }
MkdirRequired ==
    /\ pc = "mkdirs"
    /\ \E fault \in BOOLEAN :
          LET r == mkdir_p(kernel, required_dirs[idx], fault)
          IN  /\ kernel' = r.k
              /\ ops' = Append(ops, Op("mkdir_p", "", required_dirs[idx], "", {}, r.err))
              /\ IF idx < Len(required_dirs)
                 THEN Try(r.err, "mkdirs", idx + 1)
                 ELSE Try(r.err, "mount_apis", 1)
    /\ UNCHANGED <<proc_cmdline, DEBUG, cmdline, entries, module_paths, lkm_result,
                   additional_mounts, out, exit_status, call>>

\* fn mount_apis: one mount of the table
MountApi ==
    /\ pc = "mount_apis"
    /\ \E fault \in BOOLEAN :
          LET a == api_mounts[idx]
              r == Inject(kernel,
                          sys_mount(kernel, a.source, a.target, a.fstype, a.flags, {}),
                          fault)
          IN  /\ kernel' = r.k
              /\ ops' = Append(ops, Op("mount", a.source, a.target, a.fstype, a.flags, r.err))
              /\ out' = debugln(out, "Mounting " \o a.target)
              /\ IF idx < Len(api_mounts)
                 THEN Try(r.err, "mount_apis", idx + 1)
                 ELSE Try(r.err, "mkdir_run_mnt", 1)
    /\ UNCHANGED <<proc_cmdline, DEBUG, cmdline, entries, module_paths, lkm_result,
                   additional_mounts, exit_status, call>>

\* mkdir_p("/run/mnt")?
MkdirRunMnt ==
    /\ pc = "mkdir_run_mnt"
    /\ \E fault \in BOOLEAN :
          LET r == mkdir_p(kernel, "/run/mnt", fault)
          IN  /\ kernel' = r.k
              /\ ops' = Append(ops, Op("mkdir_p", "", "/run/mnt", "", {}, r.err))
              /\ Try(r.err, "read_cmdline", 1)
    /\ UNCHANGED <<proc_cmdline, DEBUG, cmdline, entries, module_paths, lkm_result,
                   additional_mounts, out, exit_status, call>>

\* fs::read_to_string: the path must name a file
sys_read(k, p) ==
    LET w == Walk(k, p)
    IN  IF w.err # "OK" THEN Result(w.err, k)
        ELSE IF IsDir(k, w.loc) THEN Result("EISDIR", k)
        ELSE Result("OK", k)

\* fn read_cmdline
ReadCmdline ==
    /\ pc = "read_cmdline"
    /\ \E fault \in BOOLEAN :
          LET r == Inject(kernel, sys_read(kernel, "/proc/cmdline"), fault)
          IN  /\ ops' = Append(ops, Op("read", "", "/proc/cmdline", "", {}, r.err))
              /\ out' = debugln(out, "Creating /proc/cmdline")
              /\ cmdline' = IF r.err = "OK" THEN Trim(proc_cmdline) ELSE cmdline
              /\ Try(r.err, "check_debug", 1)
    /\ UNCHANGED <<kernel, proc_cmdline, DEBUG, entries, module_paths, lkm_result,
                   additional_mounts, exit_status, call>>

\* fn set_debug
set_debug(enabled) == enabled

\* if cmdline_get(&cmdline, "debug").is_some() { set_debug(true); }
CheckDebug ==
    /\ pc = "check_debug"
    /\ DEBUG' = IF cmdline_get(cmdline, "debug").some THEN set_debug(TRUE) ELSE DEBUG
    /\ pc' = "mknod"
    /\ UNCHANGED <<kernel, proc_cmdline, cmdline, entries, module_paths, lkm_result,
                   additional_mounts, idx, ops, out, exit_status, call>>

\* fn create_static_devices, first loop: one device node
CreateDevice ==
    /\ pc = "mknod"
    /\ \E fault \in BOOLEAN :
          LET d  == devices[idx]
              pr == IF path_parent(d.path) # "/dev"
                    THEN mkdir_p(kernel, path_parent(d.path), fault)
                    ELSE Result("OK", kernel)
              r  == IF pr.err # "OK" THEN pr
                    ELSE Inject(pr.k,
                                sys_create(pr.k, d.path, "chr", "", <<d.major, d.minor>>, d.mode),
                                fault)
          IN  /\ kernel' = r.k
              /\ ops' = Append(ops, Op(IF pr.err # "OK" THEN "mkdir_p" ELSE "mknod",
                                       "", d.path, "", {}, r.err))
              /\ out' = debugln(IF idx = 1 THEN debugln(out, "Creating static device nodes")
                                ELSE out,
                                "Creating " \o d.path)
              /\ IF idx < Len(devices)
                 THEN Try(r.err, "mknod", idx + 1)
                 ELSE Try(r.err, "symlink", 1)
    /\ UNCHANGED <<proc_cmdline, DEBUG, cmdline, entries, module_paths, lkm_result,
                   additional_mounts, exit_status, call>>

\* CreateSymlink in a do_init without the call of load_kernel_modules
CreateSymlink_then_root ==
    /\ pc = "symlink"
    /\ \E fault \in BOOLEAN :
          LET l == symlinks[idx]
              r == Inject(kernel,
                          sys_create(kernel, l.link_path, "symlink", l.target, <<0, 0>>, ""),
                          fault)
          IN  /\ kernel' = r.k
              /\ ops' = Append(ops, Op("symlink", l.target, l.link_path, "", {}, r.err))
              /\ out' = debugln(out, "Creating " \o l.link_path)
              /\ IF idx < Len(symlinks)
                 THEN Try(r.err, "symlink", idx + 1)
                 ELSE Try(r.err, "mount_root", 1)
    /\ UNCHANGED <<proc_cmdline, DEBUG, cmdline, entries, module_paths, lkm_result,
                   additional_mounts, exit_status, call>>

\* fn create_static_devices, second loop: one symlink
CreateSymlink ==
    /\ pc = "symlink"
    /\ \E fault \in BOOLEAN :
          LET l == symlinks[idx]
              r == Inject(kernel,
                          sys_create(kernel, l.link_path, "symlink", l.target, <<0, 0>>, ""),
                          fault)
          IN  /\ kernel' = r.k
              /\ ops' = Append(ops, Op("symlink", l.target, l.link_path, "", {}, r.err))
              /\ out' = debugln(out, "Creating " \o l.link_path)
              /\ IF idx < Len(symlinks)
                 THEN Try(r.err, "symlink", idx + 1)
                 ELSE Try(r.err, "lkm_open", 1)
    /\ UNCHANGED <<proc_cmdline, DEBUG, cmdline, entries, module_paths, lkm_result,
                   additional_mounts, exit_status, call>>

-----------------------------------------------------------------------------
(* load_kernel_modules("/usr/lib/modules")                                 *)

\* LkmTry with the error of the enumeration dropped: the function goes on
LkmTry_ignoring(err, next_pc) ==
    /\ pc' = next_pc
    /\ lkm_result' = lkm_result

\* the ? operator of load_kernel_modules: it returns the error, and do_init's
\* ? returns it in turn
LkmTry(err, next_pc) ==
    /\ pc' = IF err = "OK" THEN next_pc ELSE "failed"
    /\ lkm_result' = IF err = "OK" THEN lkm_result ELSE "Err"

\* if !dir_path.exists() { return Ok(()) }; let entries = fs::read_dir(dir_path)?
LkmOpen ==
    /\ pc = "lkm_open"
    /\ IF ~Exists(kernel, modules_dir)
       THEN /\ pc' = "mount_root"
            /\ lkm_result' = "Ok"
            /\ UNCHANGED <<entries, ops>>
       ELSE \E fault \in BOOLEAN :
               LET w == Walk(kernel, modules_dir)
                   r == Inject(kernel,
                               IF IsDir(kernel, w.loc) THEN Result("OK", kernel)
                               ELSE Result("ENOTDIR", kernel),
                               fault)
               IN  /\ ops' = Append(ops, Op("read_dir", "", modules_dir, "", {}, r.err))
                   /\ entries' = IF r.err = "OK" THEN DirNames(kernel, w.loc) ELSE entries
                   /\ LkmTry(r.err, "lkm_entries")
    /\ UNCHANGED <<kernel, proc_cmdline, DEBUG, cmdline, module_paths,
                   additional_mounts, idx, out, exit_status, call>>

\* for entry in entries: the directory hands out its entries in any order
LkmEntry ==
    /\ pc = "lkm_entries"
    /\ entries # {}
    /\ \E name \in entries, fault \in BOOLEAN :
          LET path == modules_dir \o "/" \o name
              err  == IF fault THEN "EIO" ELSE "OK"
          IN  /\ entries' = entries \ {name}
              /\ ops' = IF fault
                        THEN Append(ops, Op("read_dir", "", modules_dir, "", {}, err))
                        ELSE ops
              /\ module_paths' =
                    IF /\ ~fault
                       /\ is_file(kernel, path)
                       /\ extension(path) = Some("ko")
                    THEN Append(module_paths, path)
                    ELSE module_paths
              /\ LkmTry(err, "lkm_entries")
    /\ UNCHANGED <<kernel, proc_cmdline, DEBUG, cmdline, additional_mounts, idx,
                   out, exit_status, call>>

\* module_paths.sort_by(file name), once the enumeration is over
LkmSort ==
    /\ pc = "lkm_entries"
    /\ entries = {}
    /\ module_paths' = sort_by(module_paths)
    /\ IF module_paths = <<>>
       THEN pc' = "mount_root" /\ lkm_result' = "Ok"
       ELSE pc' = "lkm_load" /\ lkm_result' = lkm_result
    /\ idx' = 1
    /\ UNCHANGED <<kernel, proc_cmdline, DEBUG, cmdline, entries, additional_mounts,
                   ops, out, exit_status, call>>

\* load_kernel_module(&path)? for the match: the first failure is returned
module_loop_returns_error(err) == err = "OK"

\* the match of the loop of load_kernel_modules on the result of one module:
\* Ok(_) => {}, Err(e) => { eprintln!(...) }; either way the loop goes on
module_loop_goes_on(err) == TRUE

\* for path in module_paths { match load_kernel_module(&path) ... }
\* fn load_kernel_module: read the file, then init_module
LkmLoad ==
    /\ pc = "lkm_load"
    /\ \E outcome \in {"OK", "read", "insert"} :
          LET path == module_paths[idx]
              rd   == Op("read", "", path, "", {}, IF outcome = "read" THEN "EIO" ELSE "OK")
              ins  == Op("init_module", "", path, "", {},
                         IF outcome = "insert" THEN "ENOEXEC" ELSE "OK")
              err  == IF outcome = "OK" THEN "OK" ELSE "Err"
              go   == module_loop_goes_on(err)
              last == idx = Len(module_paths)
          IN  /\ ops' = IF outcome = "read" THEN Append(ops, rd) ELSE ops \o <<rd, ins>>
              /\ kernel' = IF outcome = "OK"
                           THEN [kernel EXCEPT !.modules = Append(@, path)]
                           ELSE kernel
              /\ out' = IF outcome = "OK"
                        THEN debugln(out, "Loading module: " \o path)
                        ELSE eprintln(debugln(out, "Loading module: " \o path),
                                      "Failed to load module " \o path)
              /\ idx' = IF ~go THEN idx ELSE IF last THEN 1 ELSE idx + 1
              /\ pc' = IF ~go THEN "failed" ELSE IF last THEN "mount_root" ELSE "lkm_load"
              /\ lkm_result' = IF ~go THEN "Err" ELSE IF last THEN "Ok" ELSE lkm_result
    /\ UNCHANGED <<proc_cmdline, DEBUG, cmdline, entries, module_paths,
                   additional_mounts, exit_status, call>>

-----------------------------------------------------------------------------
(* The shares.                                                             *)

\* fn mount_virtiofs: the flags it passes to mount
virtiofs_flags(read_only) == IF read_only THEN {"MS_RDONLY"} ELSE {}

\* fn mount_virtiofs: the line it traces
virtiofs_message(tag, mountpoint, read_only) ==
    "Mounting " \o tag \o " at " \o mountpoint
        \o " (read_only: " \o (IF read_only THEN "true" ELSE "false") \o ")"

\* the root share mounted read-write
root_read_write == FALSE

\* the read_only argument of the mount of the root share
root_read_only == TRUE

\* let rootfs_tag = ...; mount_virtiofs(rootfs_tag, "/sysroot", true)?;
\* let additional_mounts = cmdline_get_mounts(&cmdline);
\* top: the directories the share holds at its top, seen once it is mounted
MountRoot ==
    /\ pc = "mount_root"
    /\ \E fault \in BOOLEAN, top \in SUBSET TopNames :
          LET rootfs_tag == UnwrapOr(cmdline_get(cmdline, "rootfs"), default_rootfs_tag)
              flags == virtiofs_flags(root_read_only)
              r == Inject(kernel,
                          sys_mount(kernel, rootfs_tag, newroot, "virtiofs", flags, top),
                          fault)
              mounts == cmdline_get_mounts(cmdline)
          IN  /\ kernel' = r.k
              /\ ops' = Append(ops, Op("mount", rootfs_tag, newroot, "virtiofs", flags, r.err))
              /\ out' = debugln(out, virtiofs_message(rootfs_tag, newroot, root_read_only))
              /\ additional_mounts' = IF r.err = "OK" THEN mounts ELSE additional_mounts
              /\ IF mounts = <<>>
                 THEN Try(r.err, "relocate", 1)
                 ELSE Try(r.err, "aux_mkdir", 1)
    /\ UNCHANGED <<proc_cmdline, DEBUG, cmdline, entries, module_paths, lkm_result,
                   exit_status, call>>

\* let mount_path = format!("/run/mnt/{}", tag)
mount_path(tag) == "/run/mnt/" \o tag

\* mkdir_p(&mount_path)?
AuxMkdir ==
    /\ pc = "aux_mkdir"
    /\ \E fault \in BOOLEAN :
          LET path == mount_path(additional_mounts[idx].tag)
              r == mkdir_p(kernel, path, fault)
          IN  /\ kernel' = r.k
              /\ ops' = Append(ops, Op("mkdir_p", "", path, "", {}, r.err))
              /\ Try(r.err, "aux_mount", idx)
    /\ UNCHANGED <<proc_cmdline, DEBUG, cmdline, entries, module_paths, lkm_result,
                   additional_mounts, out, exit_status, call>>

\* mount_virtiofs(tag, &mount_path, read_only)?
AuxMount ==
    /\ pc = "aux_mount"
    /\ \E fault \in BOOLEAN :
          LET a == additional_mounts[idx]
              path == mount_path(a.tag)
              flags == virtiofs_flags(a.read_only)
              r == Inject(kernel,
                          sys_mount(kernel, a.tag, path, "virtiofs", flags, {}),
                          fault)
          IN  /\ kernel' = r.k
              /\ ops' = Append(ops, Op("mount", a.tag, path, "virtiofs", flags, r.err))
              /\ out' = debugln(out, virtiofs_message(a.tag, path, a.read_only))
              /\ IF idx < Len(additional_mounts)
                 THEN Try(r.err, "aux_mkdir", idx + 1)
                 ELSE Try(r.err, "relocate", 1)
    /\ UNCHANGED <<proc_cmdline, DEBUG, cmdline, entries, module_paths, lkm_result,
                   additional_mounts, exit_status, call>>

-----------------------------------------------------------------------------
(* The root transition.                                                    *)

\* move_mount with MS_BIND for MS_MOVE: the mount is shown at dest as well
move_mount_bind(k, src, dest) ==
    LET ws == Walk(k, src)
        wt == Walk(k, dest)
        t  == Climb(k, wt.loc)
        m  == MountById(k, ws.loc.mnt)
    IN  IF ws.err # "OK" THEN Result(ws.err, k)
        ELSE IF wt.err # "OK" THEN Result(wt.err, k)
        ELSE Result("OK", [k EXCEPT
                 !.mounts = @ \cup {[m EXCEPT !.id = FreshId(k), !.parent = t.mnt,
                                              !.mp = t.path]}])

\* fn move_mount
move_mount(k, src, dest) == sys_move_mount(k, src, dest)

\* the loop over surviving_mounts: move the mount when the new root has the
\* directory, unmount it otherwise
Relocate ==
    /\ pc = "relocate"
    /\ \E fault \in BOOLEAN :
          LET mount_point == surviving_mounts[idx]
              dest == newroot \o mount_point
              move == Exists(kernel, dest)
              r == Inject(kernel,
                          IF move THEN move_mount(kernel, mount_point, dest)
                          ELSE sys_umount(kernel, mount_point),
                          fault)
          IN  /\ kernel' = r.k
              /\ ops' = Append(ops,
                               IF move
                               THEN Op("move_mount", mount_point, dest, "", {"MS_MOVE"}, r.err)
                               ELSE Op("umount", "", mount_point, "", {}, r.err))
              /\ out' = IF move
                        THEN debugln(out, "Moving " \o mount_point \o " to " \o dest)
                        ELSE out
              /\ IF idx < Len(surviving_mounts)
                 THEN Try(r.err, "relocate", idx + 1)
                 ELSE Try(r.err, "sr_chdir", 1)
    /\ UNCHANGED <<proc_cmdline, DEBUG, cmdline, entries, module_paths, lkm_result,
                   additional_mounts, exit_status, call>>

\* chroot("/") for chroot(".")
sr_chroot_path_slash == "/"

\* chroot(newroot) for chroot("."): the path is looked up again, from the old
\* root, after the mount has been moved away from it
sr_chroot_path_newroot == "/sysroot"

\* fn switch_root, the paths of its calls
sr_chroot_path == "."

sr_open_path == "/"

\* the handle kept beyond switch_root (mem::forget, or a handle returned)
drop_old_root_leaking(k) == k

\* drop_old_root that also goes back to the directory switch_root started
\* in (a guard that undoes chdir(newroot))
drop_old_root_undoing_chdir(k) == [k EXCEPT !.fds = {}, !.cwd = k.root]

\* the end of the scope of _old_root, on every way out of switch_root: the
\* handle is dropped, which closes it
drop_old_root(k) == [k EXCEPT !.fds = {}]

\* chdir(newroot)?
SrChdir ==
    /\ pc = "sr_chdir"
    /\ \E fault \in BOOLEAN :
          LET r == Inject(kernel, sys_chdir(kernel, newroot), fault)
          IN  /\ kernel' = r.k
              /\ ops' = Append(ops, Op("chdir", "", newroot, "", {}, r.err))
              /\ out' = debugln(out, "Switching root to " \o newroot)
              /\ Try(r.err, "sr_open", 1)
    /\ UNCHANGED <<proc_cmdline, DEBUG, cmdline, entries, module_paths, lkm_result,
                   additional_mounts, exit_status, call>>

\* let _old_root = fs::File::open("/")?
SrOpen ==
    /\ pc = "sr_open"
    /\ \E fault \in BOOLEAN :
          LET r == Inject(kernel, sys_open(kernel, sr_open_path), fault)
          IN  /\ kernel' = r.k
              /\ ops' = Append(ops, Op("open", "", sr_open_path, "", {}, r.err))
              /\ Try(r.err, "sr_move", 1)
    /\ UNCHANGED <<proc_cmdline, DEBUG, cmdline, entries, module_paths, lkm_result,
                   additional_mounts, out, exit_status, call>>

\* move_mount(".", "/")?
SrMove ==
    /\ pc = "sr_move"
    /\ \E fault \in BOOLEAN :
          LET r == Inject(kernel, move_mount(kernel, ".", "/"), fault)
          IN  /\ kernel' = IF r.err = "OK" THEN r.k ELSE drop_old_root(r.k)
              /\ ops' = Append(ops, Op("move_mount", ".", "/", "", {"MS_MOVE"}, r.err))
              /\ out' = debugln(out, "Moving . to /")
              /\ Try(r.err, "sr_chroot", 1)
    /\ UNCHANGED <<proc_cmdline, DEBUG, cmdline, entries, module_paths, lkm_result,
                   additional_mounts, exit_status, call>>

\* chroot(".")?
SrChroot ==
    /\ pc = "sr_chroot"
    /\ \E fault \in BOOLEAN :
          LET r == Inject(kernel, sys_chroot(kernel, sr_chroot_path), fault)
          IN  /\ kernel' = IF r.err = "OK" THEN r.k ELSE drop_old_root(r.k)
              /\ ops' = Append(ops, Op("chroot", "", sr_chroot_path, "", {}, r.err))
              /\ Try(r.err, "sr_chdir_root", 1)
    /\ UNCHANGED <<proc_cmdline, DEBUG, cmdline, entries, module_paths, lkm_result,
                   additional_mounts, out, exit_status, call>>

\* chdir("/")?; Ok(())
SrChdirRoot ==
    /\ pc = "sr_chdir_root"
    /\ \E fault \in BOOLEAN :
          LET r == Inject(kernel, sys_chdir(kernel, "/"), fault)
          IN  /\ kernel' = drop_old_root(r.k)
              /\ ops' = Append(ops, Op("chdir", "", "/", "", {}, r.err))
              /\ Try(r.err, "exec", 1)
    /\ UNCHANGED <<proc_cmdline, DEBUG, cmdline, entries, module_paths, lkm_result,
                   additional_mounts, out, exit_status, call>>

-----------------------------------------------------------------------------
(* Process replacement, and main.                                          *)

\* argv[0] always the whole path
init_name_whole_path(init_program) == init_program

\* let init_name = Path::new(init_program).file_name()...unwrap_or(init_program)
init_name(init_program) == UnwrapOr(file_name(init_program), init_program)

\* let args = vec![&init_arg]
init_args(init_program) == <<init_name(init_program)>>

\* execve(2): the empty path names nothing and a directory cannot be run;
\* whether the new root holds the program (present) is the host's matter
sys_execve(k, path, present) ==
    LET w == Walk(k, path)
    IN  IF path = "" THEN Result("ENOENT", k)
        ELSE IF w.err = "OK" /\ IsDir(k, w.loc) THEN Result("EACCES", k)
        ELSE IF ~present THEN Result("ENOENT", k)
        ELSE Result("OK", k)

\* execv(&init_path, &args)?: on success the program is replaced and none of
\* its statements runs any more
Exec ==
    /\ pc = "exec"
    /\ \E present \in BOOLEAN :
          LET init_program == UnwrapOr(cmdline_get(cmdline, "init"), default_init)
              r == sys_execve(kernel, init_program, present)
          IN  /\ ops' = Append(ops, [Op("execv", "", init_program, "", {}, r.err)
                                         EXCEPT !.argv = init_args(init_program)])
              /\ out' = debugln(out, "Executing init: " \o init_program)
              /\ pc' = IF r.err = "OK" THEN "replaced" ELSE "failed"
    /\ UNCHANGED <<kernel, proc_cmdline, DEBUG, cmdline, entries, module_paths,
                   lkm_result, additional_mounts, idx, exit_status, call>>

\* main returning what do_init returned (a plain do_init() as its last line)
main_result_of_do_init(failed) == IF failed THEN 1 ELSE 0

\* fn main: its last line is Ok(()), whatever do_init returned; the runtime
\* turns Ok(()) into the exit status 0
main_result(failed) == 0

\* fn main: if let Err(err) = do_init() { eprintln!(...) }; Ok(())
MainReturn ==
    /\ pc = "failed"
    /\ pc' = "exited"
    /\ out' = eprintln(out, "Unexpected error: " \o ops[Len(ops)].err)
    /\ exit_status' = [exited |-> TRUE, code |-> main_result(TRUE)]
    /\ UNCHANGED <<kernel, proc_cmdline, DEBUG, cmdline, entries, module_paths,
                   lkm_result, additional_mounts, idx, ops, call>>

Next ==
    \/ MkdirRequired
    \/ MountApi
    \/ MkdirRunMnt
    \/ ReadCmdline
    \/ CheckDebug
    \/ CreateDevice
    \/ CreateSymlink
    \/ LkmOpen
    \/ LkmEntry
    \/ LkmSort
    \/ LkmLoad
    \/ MountRoot
    \/ AuxMkdir
    \/ AuxMount
    \/ Relocate
    \/ SrChdir
    \/ SrOpen
    \/ SrMove
    \/ SrChroot
    \/ SrChdirRoot
    \/ Exec
    \/ MainReturn

Spec == Init /\ [][Next]_vars

-----------------------------------------------------------------------------
(* The functions of the command line, applied to every line of a bounded   *)
(* set instead of the few lines a run of do_init is started with.          *)

\* the pieces the lines are put together from
Pieces == {" ", "\t", "=", "a", "rootfs", "rootfs=myvol", "mount=", "mount-ro=b"}

\* every concatenation of at most n pieces
RECURSIVE Concats(_)
Concats(n) ==
    IF n = 0 THEN {""}
    ELSE Concats(n - 1) \cup {s \o p : s \in Concats(n - 1), p \in Pieces}

\* lines beyond the bound that the program's documentation names
LongLines ==
    { "mount=a mount-ro=b mount=c",
      "debug",
      "console=ttyS0 rootfs=a rootfs=myvol init=/sbin/init\n",
      "\t mount-ro=b  mount=a\tmount= mount=rootfs debug=1 \n" }

Lines == Concats(MaxPieces) \cup LongLines

\* the keys cmdline_get is asked for
Keys == {"rootfs", "debug", "init", "mount"}

ParseInit ==
    /\ pc = "parse"
    /\ idx = 1
    /\ proc_cmdline \in Lines
    /\ kernel = InitKernel(FALSE, FALSE, {})
    /\ DEBUG = FALSE
    /\ cmdline = ""
    /\ entries = {}
    /\ module_paths = <<>>
    /\ lkm_result = "none"
    /\ additional_mounts = <<>>
    /\ ops = <<>>
    /\ out = <<>>
    /\ exit_status = [exited |-> FALSE, code |-> 0]
    /\ call = NoCall

\* cmdline_get(line, key)
CallCmdlineGet ==
    /\ pc = "parse"
    /\ \E key \in Keys :
          call' = [fn |-> "cmdline_get", line |-> proc_cmdline, key |-> key,
                   ret |-> cmdline_get(proc_cmdline, key), mounts |-> <<>>]
    /\ UNCHANGED <<pc, kernel, proc_cmdline, DEBUG, cmdline, entries, module_paths,
                   lkm_result, additional_mounts, idx, ops, out, exit_status>>

\* cmdline_get_mounts(line)
CallCmdlineGetMounts ==
    /\ pc = "parse"
    /\ call' = [fn |-> "cmdline_get_mounts", line |-> proc_cmdline, key |-> "",
                ret |-> None, mounts |-> cmdline_get_mounts(proc_cmdline)]
    /\ UNCHANGED <<pc, kernel, proc_cmdline, DEBUG, cmdline, entries, module_paths,
                   lkm_result, additional_mounts, idx, ops, out, exit_status>>

ParseNext ==
    \/ CallCmdlineGet
    \/ CallCmdlineGetMounts

ParseSpec == ParseInit /\ [][ParseNext]_vars

-----------------------------------------------------------------------------
(* Properties.                                                             *)

LastOp == ops[Len(ops)]

Stopped == pc \in {"failed", "exited"}

\* the operations whose failure ends do_init
IsFatalOp(o) ==
    \/ o.op \in {"mkdir_p", "mount", "move_mount", "umount", "mknod", "symlink",
                 "chdir", "open", "chroot", "execv"}
    \/ o.op = "read" /\ o.target = "/proc/cmdline"

\* C1: when an operation whose failure is fatal fails (mkdir_p, a mount, the
\* read of the command line, mknod, symlink, a move or unmount, a step of
\* switch_root, the exec), it is the last operation of the run: nothing is
\* attempted after it, and do_init has returned
C1_FirstFailureIsLast ==
    \A i \in 1..Len(ops) :
        (IsFatalOp(ops[i]) /\ ops[i].err # "OK") => (i = Len(ops) /\ Stopped)

\* a run that failed in the middle of the pipeline and has ended
C1_Witness ==
    /\ pc = "exited"
    /\ Len(ops) > 12
    /\ LastOp.op = "mount" /\ LastOp.fstype = "virtiofs" /\ LastOp.err # "OK"

IsApiMount(o) == o.op = "mount" /\ o.fstype # "virtiofs"

MountedOkBefore(i, fstype, target) ==
    \E j \in 1..(i - 1) :
        /\ ops[j].op = "mount" /\ ops[j].fstype = fstype /\ ops[j].target = target
        /\ ops[j].err = "OK"

IsPrefixOf(s, t) == Len(s) <= Len(t) /\ \A i \in 1..Len(s) : s[i] = t[i]

\* C2: /proc/cmdline is read only after proc has been mounted at /proc, device
\* nodes and /dev symlinks are made only after devtmpfs has been mounted at
\* /dev, and the pseudo-filesystems are mounted in the order /sys, /dev,
\* /proc, /run, /tmp
C2_MountOrder ==
    /\ \A i \in 1..Len(ops) :
          (ops[i].op = "read" /\ ops[i].target = "/proc/cmdline")
             => MountedOkBefore(i, "proc", "/proc")
    /\ \A i \in 1..Len(ops) :
          ops[i].op \in {"mknod", "symlink"} => MountedOkBefore(i, "devtmpfs", "/dev")
    /\ LET api == SelectSeq(ops, IsApiMount)
       IN  IsPrefixOf([i \in 1..Len(api) |-> api[i].target],
                      <<"/sys", "/dev", "/proc", "/run", "/tmp">>)

\* the command line has been read and the device nodes and symlinks made
C2_Witness ==
    /\ pc = "lkm_open"
    /\ \E i \in 1..Len(ops) : ops[i].op = "read" /\ ops[i].err = "OK"
    /\ \E i \in 1..Len(ops) : ops[i].op = "symlink" /\ ops[i].target = "/dev/stderr"

\* the moves and unmounts of the loop over the surviving mountpoints
IsRelocation(o) == o.op = "umount" \/ (o.op = "move_mount" /\ o.source # ".")

Relocations == SelectSeq(ops, IsRelocation)

\* the filesystem of the share mounted at /sysroot
NewRootFs ==
    LET i == CHOOSE i \in 1..Len(ops) : ops[i].op = "mount" /\ ops[i].target = "/sysroot"
    IN  "virtiofs:" \o ops[i].source

NewRootHas(name) == <<NewRootFs, <<name>>>> \in kernel.dirs

RelocationDone == Len(Relocations) = 5 /\ Relocations[5].err = "OK"

PseudoFs == {"sysfs", "devtmpfs", "proc", "tmpfs:/run", "tmpfs:/tmp"}

\* C3: the surviving mountpoints are taken in the order /run, /dev, /proc,
\* /sys, /tmp; each is moved to /sysroot<mountpoint> exactly when the new root
\* has that directory and is unmounted otherwise; once the loop is through,
\* no pseudo-filesystem is mounted at its old place any more and none is
\* mounted twice
C3_Relocation ==
    LET names == <<"run", "dev", "proc", "sys", "tmp">>
        r == Relocations
    IN  /\ Len(r) <= 5
        /\ \A i \in 1..Len(r) :
              IF NewRootHas(names[i])
              THEN /\ r[i].op = "move_mount"
                   /\ r[i].source = "/" \o names[i]
                   /\ r[i].target = "/sysroot/" \o names[i]
              ELSE /\ r[i].op = "umount"
                   /\ r[i].target = "/" \o names[i]
        /\ RelocationDone =>
              /\ \A m \in kernel.mounts :
                    m.fs \in PseudoFs => ~(m.parent = 1 /\ m.mp \in {<<n>> : n \in TopNames})
              /\ \A f \in PseudoFs : Cardinality({m \in kernel.mounts : m.fs = f}) <= 1

\* the loop is through, with a mount moved and a mount unmounted
C3_Witness ==
    /\ pc = "sr_chdir"
    /\ RelocationDone
    /\ \E i \in 1..5 : Relocations[i].op = "move_mount"
    /\ \E i \in 1..5 : Relocations[i].op = "umount"
    /\ \E m \in kernel.mounts : m.fs = "tmpfs:/run" /\ m.parent # 1

\* C4 (as claimed): a mountpoint missing from the new root never ends the
\* boot: the unmount done in its place fails only when the environment fails
\* it ("EIO"), never because of what the program mounted before
C4_MissingMountpointNeverAborts ==
    \A i \in 1..Len(ops) : ops[i].op = "umount" => ops[i].err \in {"OK", "EIO"}

IsSwitchRootOp(o) ==
    \/ o.op \in {"chdir", "open", "chroot"}
    \/ o.op = "move_mount" /\ o.source = "."

SwitchRootOps == SelectSeq(ops, IsSwitchRootOp)

SwitchRootOk == Len(SwitchRootOps) = 5 /\ SwitchRootOps[5].err = "OK"

\* the mount of the new root once it has been moved onto "/"
IsNewRootMount(m) == m.parent = 1 /\ m.mp = <<>> /\ m.fs = NewRootFs

\* C5: switch_root calls chdir(newroot), open("/"), move-mount "." onto "/",
\* chroot("."), chdir("/"), in this order; when it has returned success, the
\* process's root and its working directory are the root directory of the
\* new root, and every mount but the initramfs itself is the new root or
\* lies beneath it
C5_SwitchRoot ==
    /\ IsPrefixOf([i \in 1..Len(SwitchRootOps) |->
                      <<SwitchRootOps[i].op, SwitchRootOps[i].source, SwitchRootOps[i].target>>],
                  << <<"chdir", "", "/sysroot">>, <<"open", "", "/">>,
                     <<"move_mount", ".", "/">>, <<"chroot", "", ".">>,
                     <<"chdir", "", "/">> >>)
    /\ SwitchRootOk =>
          /\ kernel.root = kernel.cwd
          /\ kernel.root.path = <<>>
          /\ IsNewRootMount(MountById(kernel, kernel.root.mnt))
          /\ \A m \in kernel.mounts :
                m.id # 1 => m.id \in Subtree(kernel, {kernel.root.mnt})

\* switch_root has returned success with a pseudo-filesystem and a share
\* carried along
C5_Witness ==
    /\ pc = "exec"
    /\ SwitchRootOk
    /\ \E m \in kernel.mounts : m.fs = "virtiofs:a" /\ m.id \in Subtree(kernel, {kernel.root.mnt})

\* C6: the working directory is an existing directory in every state, and the
\* handle on the old root is held only inside switch_root, between its open
\* and its return: it is closed whenever switch_root is not running, so when
\* the exec is attempted
C6_CwdValidAndHandleClosed ==
    /\ IsDir(kernel, kernel.cwd)
    /\ pc \notin {"sr_move", "sr_chroot", "sr_chdir_root"} => kernel.fds = {}
    /\ \A i \in 1..Len(ops) : ops[i].op = "execv" => kernel.fds = {}

\* switch_root has opened the old root and has returned
C6_Witness ==
    /\ pc \in {"exec", "replaced"}
    /\ \E i \in 1..Len(ops) : ops[i].op = "open" /\ ops[i].err = "OK"
    /\ kernel.cwd.mnt # 1

IsRootMount(o) == o.op = "mount" /\ o.target = "/sysroot"

IsAuxMount(o) == o.op = "mount" /\ o.fstype = "virtiofs" /\ o.target # "/sysroot"

\* the tag the command line asks for: what follows rootfs= in the first
\* parameter that is rootfs or starts with rootfs=, "rootfs" without one
ExpectedRootTag ==
    LET t == SelectSeq(SplitWhitespace(proc_cmdline),
                       LAMBDA x : x = "rootfs" \/ StartsWith(x, "rootfs="))
    IN  IF t = <<>> THEN "rootfs"
        ELSE IF t[1] = "rootfs" THEN ""
        ELSE SubSeq(t[1], 8, Len(t[1]))

\* C7: the root share is mounted at /sysroot as virtiofs, read-only whatever
\* the command line holds, from the tag of the rootfs key ("rootfs" without
\* the key), and no auxiliary share is mounted before it is
C7_RootShare ==
    /\ \A i \in 1..Len(ops) :
          IsRootMount(ops[i]) =>
             /\ ops[i].fstype = "virtiofs"
             /\ "MS_RDONLY" \in ops[i].flags
             /\ ops[i].source = ExpectedRootTag
             /\ \A j \in 1..(i - 1) : ~IsAuxMount(ops[j])
    /\ \A j \in 1..Len(ops) :
          IsAuxMount(ops[j]) =>
             \E i \in 1..(j - 1) : IsRootMount(ops[i]) /\ ops[i].err = "OK"
    /\ \A m \in kernel.mounts :
          (m.mp = <<"sysroot">> \/ (m.parent = 1 /\ m.mp = <<>>)) => "MS_RDONLY" \in m.flags

\* the root share is mounted from the tag of rootfs=r, an auxiliary share
\* after it
C7_Witness ==
    /\ \E i \in 1..Len(ops) :
          IsRootMount(ops[i]) /\ ops[i].err = "OK" /\ ops[i].source = "r"
    /\ \E j \in 1..Len(ops) : IsAuxMount(ops[j]) /\ ops[j].err = "OK"

IsMountToken(t) ==
    \/ StartsWith(t, "mount=") /\ Len(t) > 6
    \/ StartsWith(t, "mount-ro=") /\ Len(t) > 9

\* the shares the command line asks for, in its order
ExpectedShares ==
    LET t == SelectSeq(SplitWhitespace(proc_cmdline), IsMountToken)
    IN  [i \in 1..Len(t) |->
            IF StartsWith(t[i], "mount=")
            THEN [tag |-> SubSeq(t[i], 7, Len(t[i])), ro |-> FALSE]
            ELSE [tag |-> SubSeq(t[i], 10, Len(t[i])), ro |-> TRUE]]

AuxMounts == SelectSeq(ops, IsAuxMount)

\* C8: the auxiliary mounts attempted are those of the mount= and mount-ro=
\* parameters with a tag, in the order of the command line, each at
\* /run/mnt/TAG, read-only for mount-ro= alone, all of them once the stage
\* is through; a tag that comes again is mounted again, and that mount fails
\* and ends the run
C8_AuxShares ==
    LET a == AuxMounts
        e == ExpectedShares
    IN  /\ Len(a) <= Len(e)
        /\ \A i \in 1..Len(a) :
              /\ a[i].source = e[i].tag
              /\ a[i].target = "/run/mnt/" \o e[i].tag
              /\ ("MS_RDONLY" \in a[i].flags) <=> e[i].ro
        /\ (pc = "relocate" \/ Relocations # <<>>) =>
              /\ Len(a) = Len(e)
              /\ \A i \in 1..Len(a) : a[i].err = "OK"
        /\ \A i \in 1..Len(a) : \A j \in (i + 1)..Len(a) :
              a[i].source = a[j].source =>
                 /\ a[j].err # "OK"
                 /\ Stopped
                 /\ LastOp = a[j]

\* a tag named twice: the second mount was attempted and refused
C8_Witness ==
    /\ pc = "exited"
    /\ Len(AuxMounts) = 2
    /\ AuxMounts[1].source = AuxMounts[2].source
    /\ AuxMounts[2].err = "EBUSY"

IsModuleRead(o) == o.op = "read" /\ o.target # "/proc/cmdline"

IsModuleOp(o) == IsModuleRead(o) \/ o.op = "init_module"

\* one per module attempted: load_kernel_module starts by reading the file
ModuleAttempts == SelectSeq(ops, IsModuleRead)

\* C9: the modules are attempted in the order of the sorted list, each once,
\* whatever the earlier ones did: no failure of a module ends the run, the
\* loop gets to the end of the list and load_kernel_modules returns success
C9_ModuleFailuresTolerated ==
    LET a == ModuleAttempts
    IN  /\ \A i \in 1..Len(a) : i <= Len(module_paths) /\ a[i].target = module_paths[i]
        /\ \A i \in 1..Len(ops) :
              (IsModuleOp(ops[i]) /\ ops[i].err # "OK") => ~(Stopped /\ i = Len(ops))
        /\ (Len(a) > 0 /\ pc # "lkm_load") =>
              /\ lkm_result = "Ok"
              /\ Len(a) = Len(module_paths)
        /\ lkm_result = "Err" => LastOp.op = "read_dir"

\* the first module failed, the second was attempted, the call returned Ok
C9_Witness ==
    /\ lkm_result = "Ok"
    /\ Len(ModuleAttempts) = 2
    /\ ModuleAttempts[1].err # "OK"
    /\ \E i \in 1..Len(ops) : ops[i].op = "init_module" /\ ops[i].err # "OK"

\* the names /usr/lib/modules holds, and those of its regular files
DirAllNames ==
    {d[2][4] : d \in {x \in kernel.dirs : /\ x[1] = "rootfs" /\ Len(x[2]) = 4
                                          /\ SubSeq(x[2], 1, 3) = <<"usr", "lib", "modules">>}}
    \cup {n.path[4] : n \in {x \in kernel.nodes : /\ x.fs = "rootfs" /\ Len(x.path) = 4
                                                  /\ SubSeq(x.path, 1, 3) = <<"usr", "lib", "modules">>}}

DirFileNames ==
    {n.path[4] : n \in {x \in kernel.nodes : /\ x.fs = "rootfs" /\ Len(x.path) = 4
                                             /\ x.kind = "file"
                                             /\ SubSeq(x.path, 1, 3) = <<"usr", "lib", "modules">>}}

\* a name with the extension ko: it ends in .ko after at least one character
HasKoExtension(n) == Len(n) >= 4 /\ EndsWith(n, ".ko")

AttemptedNames ==
    [i \in 1..Len(ModuleAttempts) |->
        SubSeq(ModuleAttempts[i].target, 18, Len(ModuleAttempts[i].target))]

ModulesDirPresent ==
    \/ <<"rootfs", ModulesPath>> \in kernel.dirs
    \/ \E n \in kernel.nodes : n.fs = "rootfs" /\ n.path = ModulesPath

\* the enumeration of the directory failed: read_dir itself, or an entry
EnumerationFailed == \E i \in 1..Len(ops) : ops[i].op = "read_dir" /\ ops[i].err # "OK"

\* the stages of do_init that come after load_kernel_modules
AfterModules ==
    {"mount_root", "aux_mkdir", "aux_mount", "relocate", "sr_chdir", "sr_open",
     "sr_move", "sr_chroot", "sr_chdir_root", "exec", "replaced"}

\* C11: load_kernel_modules returns an error exactly when /usr/lib/modules
\* exists and its enumeration fails (read_dir, or the read of an entry); when
\* nothing is at that path it returns Ok with no enumeration and no module
\* read or insertion attempted; do_init goes on past it only after Ok
C11_ModulesResult ==
    /\ lkm_result = "Err" <=> (ModulesDirPresent /\ EnumerationFailed)
    /\ ~ModulesDirPresent =>
          /\ lkm_result # "Err"
          /\ \A i \in 1..Len(ops) : ops[i].op # "read_dir" /\ ~IsModuleOp(ops[i])
          /\ pc \notin {"lkm_entries", "lkm_load"}
    /\ pc \in AfterModules => lkm_result = "Ok"
    /\ lkm_result = "none" => pc \notin AfterModules

\* the path exists but cannot be enumerated (it is a regular file): the
\* function returned the error
C11_Witness ==
    /\ lkm_result = "Err"
    /\ LastOp.op = "read_dir" /\ LastOp.err = "ENOTDIR"
    /\ pc = "exited"

\* the places where a token of s starts: a character that is not whitespace,
\* first of s or after whitespace
TokenStarts(s) ==
    {i \in 1..Len(s) : /\ ~IsSpace(CharAt(s, i))
                        /\ (i = 1 \/ IsSpace(CharAt(s, i - 1)))}

\* the token of s that starts at i: it runs up to the end of s or the next
\* whitespace
TokenAt(s, i) ==
    LET ends == {j \in i..Len(s) : j = Len(s) \/ IsSpace(CharAt(s, j + 1))}
        j == CHOOSE x \in ends : \A y \in ends : x <= y
    IN  SubSeq(s, i, j)

\* the token is the key, bare or with a value
HasKey(t, key) == t = key \/ StartsWith(t, key \o "=")

\* what the claim says cmdline_get returns
ExpectedGet(s, key) ==
    LET hits == {i \in TokenStarts(s) : HasKey(TokenAt(s, i), key)}
        first == TokenAt(s, CHOOSE x \in hits : \A y \in hits : x <= y)
    IN  IF hits = {} THEN None
        ELSE IF first = key THEN Some("")
        ELSE Some(SubSeq(first, Len(key) + 2, Len(first)))

Contains(s, p) == \E i \in 1..(Len(s) - Len(p) + 1) : SubSeq(s, i, i + Len(p) - 1) = p

\* the first token of s with the key is t
FirstWithKeyIs(s, key, t) ==
    LET hits == {i \in TokenStarts(s) : HasKey(TokenAt(s, i), key)}
    IN  hits # {} /\ TokenAt(s, CHOOSE x \in hits : \A y \in hits : x <= y) = t

GetAgreesWithClaim ==
    call.fn = "cmdline_get" =>
       /\ call.ret \in {None} \cup {Some(SubSeq(call.line, i, j)) :
                                      i \in 1..(Len(call.line) + 1), j \in 0..Len(call.line)}
       /\ call.ret = ExpectedGet(call.line, call.key)

\* C12 (as claimed): cmdline_get returns a result for every line and key: the
\* empty string or the text after "=" of the first whitespace-separated token
\* that is the key or starts with key=, not-found when there is no such
\* token; and every line that contains rootfs=myvol gives myvol for rootfs
C12_GetAsClaimed ==
    /\ GetAgreesWithClaim
    /\ (call.fn = "cmdline_get" /\ call.key = "rootfs" /\ Contains(call.line, "rootfs=myvol"))
          => call.ret = Some("myvol")

\* C12 (amended): as above, but it is every line whose first token with the
\* key rootfs is the token rootfs=myvol that gives myvol
C12_Get ==
    /\ GetAgreesWithClaim
    /\ (call.fn = "cmdline_get" /\ call.key = "rootfs"
           /\ FirstWithKeyIs(call.line, "rootfs", "rootfs=myvol"))
          => call.ret = Some("myvol")

\* rootfs=myvol is the first token with the key, between other text
C12_Witness ==
    /\ call.fn = "cmdline_get" /\ call.key = "rootfs"
    /\ call.line = "a\trootfs=myvol "
    /\ FirstWithKeyIs(call.line, "rootfs", "rootfs=myvol")
    /\ call.ret = Some("myvol")

\* the token is mount=TAG or mount-ro=TAG with a tag
IsShareToken(t) ==
    \/ StartsWith(t, "mount=") /\ Len(t) > Len("mount=")
    \/ StartsWith(t, "mount-ro=") /\ Len(t) > Len("mount-ro=")

\* the entry the claim gives a share token
ShareOf(t) ==
    IF StartsWith(t, "mount=")
    THEN [tag |-> SubSeq(t, Len("mount=") + 1, Len(t)), read_only |-> FALSE]
    ELSE [tag |-> SubSeq(t, Len("mount-ro=") + 1, Len(t)), read_only |-> TRUE]

\* the elements of a set of numbers in ascending order
RECURSIVE Ascending(_)
Ascending(S) ==
    IF S = {} THEN <<>>
    ELSE LET m == CHOOSE x \in S : \A y \in S : x <= y
         IN  <<m>> \o Ascending(S \ {m})

\* what the claim says cmdline_get_mounts returns
ExpectedMounts(s) ==
    LET at == Ascending({i \in TokenStarts(s) : IsShareToken(TokenAt(s, i))})
    IN  [n \in 1..Len(at) |-> ShareOf(TokenAt(s, at[n]))]

\* C13: cmdline_get_mounts returns, for every line, one entry per token
\* mount=TAG or mount-ro=TAG with a non-empty TAG and none for any other
\* token, in the order of the line, read-only for mount-ro= and not for
\* mount=; "mount=a mount-ro=b mount=c" gives (a,false), (b,true), (c,false)
C13_GetMounts ==
    call.fn = "cmdline_get_mounts" =>
       /\ call.mounts = ExpectedMounts(call.line)
       /\ call.line = "mount=a mount-ro=b mount=c" =>
             call.mounts = << [tag |-> "a", read_only |-> FALSE],
                              [tag |-> "b", read_only |-> TRUE],
                              [tag |-> "c", read_only |-> FALSE] >>

\* a line with a share of each kind, a token without a tag and a token that
\* is no share
C13_Witness ==
    /\ call.fn = "cmdline_get_mounts"
    /\ call.line = "\t mount-ro=b  mount=a\tmount= mount=rootfs debug=1 \n"
    /\ call.mounts = << [tag |-> "b", read_only |-> TRUE],
                        [tag |-> "a", read_only |-> FALSE],
                        [tag |-> "rootfs", read_only |-> FALSE] >>

\* a path without the slashes and "." names it ends in
RECURSIVE StripTail(_)
StripTail(p) ==
    IF EndsWith(p, "/") THEN StripTail(SubSeq(p, 1, Len(p) - 1))
    ELSE IF EndsWith(p, "/.") THEN StripTail(SubSeq(p, 1, Len(p) - 2))
    ELSE p

\* the final component of a path as the claim has it: what follows the last
\* slash; a path that ends in no name (the root, "..", the empty path) has
\* none, and the whole path stands for it
ExpectedArgv0(p) ==
    LET q == StripTail(p)
        slashes == {i \in 1..Len(q) : CharAt(q, i) = "/"}
        last == IF slashes = {} THEN 0
                ELSE CHOOSE x \in slashes : \A y \in slashes : y <= x
        name == SubSeq(q, last + 1, Len(q))
    IN  IF name \in {"", ".", ".."} THEN p ELSE name

\* the program the command line asks for
ExpectedProgram == UnwrapOr(ExpectedGet(proc_cmdline, "init"), "/bin/sh")

\* C14: the program handed to execv is the value of the init key, /bin/sh
\* without the key, and its arguments are argv[0] alone: the final component
\* of the program's path, the whole path when it has none; without the key
\* the program is /bin/sh and argv[0] is sh
C14_InitProgram ==
    \A i \in 1..Len(ops) :
        ops[i].op = "execv" =>
           /\ ops[i].target = ExpectedProgram
           /\ Len(ops[i].argv) = 1
           /\ ops[i].argv[1] = ExpectedArgv0(ExpectedProgram)
           /\ ~ExpectedGet(proc_cmdline, "init").some =>
                 (ops[i].target = "/bin/sh" /\ ops[i].argv = <<"sh">>)
           /\ proc_cmdline = "init=/\n" => ops[i].argv = <<"/">>
           /\ proc_cmdline = "init=/sbin/init mount=rootfs\n" => ops[i].argv = <<"init">>

\* the default program has replaced the process
C14_Witness ==
    /\ pc = "replaced"
    /\ LastOp.op = "execv" /\ LastOp.err = "OK"
    /\ LastOp.target = "/bin/sh" /\ LastOp.argv = <<"sh">>

\* C15: when main has returned (the process was not replaced by the init
\* program), the exit status is 0, whichever call of do_init failed; the
\* failure is told by the last line written, which is on standard error
C15_ExitStatusZero ==
    /\ exit_status.exited =>
          /\ exit_status.code = 0
          /\ pc = "exited"
          /\ LastOp.err # "OK"
          /\ out[Len(out)] = [fd |-> 2, text |-> "Unexpected error: " \o LastOp.err]
    /\ pc = "exited" => exit_status.exited
    /\ pc = "replaced" => ~exit_status.exited

\* main has returned after a failure of switch_root
C15_Witness ==
    /\ exit_status.exited
    /\ LastOp.op = "chroot" /\ LastOp.err # "OK"

\* how many of the calls made so far are P
Count(P(_)) == Len(SelectSeq(ops, P))

\* how many calls of the kind op were made with this source and target
Calls(op, source, target) ==
    Count(LAMBDA o : o.op = op /\ o.source = source /\ o.target = target)

Range(s) == {s[i] : i \in 1..Len(s)}

\* the calls of the claim with the number of times each was made; the mounts
\* of the shares are counted against the tokens of the command line
CallCounts ==
    {Calls("mount", a.source, a.target) : a \in Range(api_mounts)}
    \cup {Calls("mknod", "", d.path) : d \in Range(devices)}
    \cup {Calls("symlink", l.target, l.link_path) : l \in Range(symlinks)}
    \cup {Calls("read", "", p) : p \in Range(module_paths)}
    \cup {Calls("init_module", "", p) : p \in Range(module_paths)}
    \cup {Count(IsRootMount)}
    \cup {Count(LAMBDA o : IsRelocation(o) /\ mp \in {o.source, o.target}) :
             mp \in Range(surviving_mounts)}
    \cup {Calls("chdir", "", "/sysroot"), Calls("open", "", "/"),
          Calls("move_mount", ".", "/"), Calls("chroot", "", "."),
          Calls("chdir", "", "/")}
    \cup {Count(LAMBDA o : o.op = "execv")}

\* as CallCounts, without the insertions of the modules whose file could not
\* be read (load_kernel_module returns before init_module)
CallCountsDue ==
    {Calls("mount", a.source, a.target) : a \in Range(api_mounts)}
    \cup {Calls("mknod", "", d.path) : d \in Range(devices)}
    \cup {Calls("symlink", l.target, l.link_path) : l \in Range(symlinks)}
    \cup {Calls("read", "", p) : p \in Range(module_paths)}
    \cup {Calls("init_module", "", p) :
             p \in {q \in Range(module_paths) :
                       \E i \in 1..Len(ops) : /\ ops[i].op = "read" /\ ops[i].target = q
                                               /\ ops[i].err = "OK"}}
    \cup {Count(IsRootMount)}
    \cup {Count(LAMBDA o : IsRelocation(o) /\ mp \in {o.source, o.target}) :
             mp \in Range(surviving_mounts)}
    \cup {Calls("chdir", "", "/sysroot"), Calls("open", "", "/"),
          Calls("move_mount", ".", "/"), Calls("chroot", "", "."),
          Calls("chdir", "", "/")}
    \cup {Count(LAMBDA o : o.op = "execv")}

\* C16: nothing is tried again: every mount of a pseudo-filesystem, device
\* node, symlink, module, mount of the root share, move or unmount of a
\* surviving mountpoint, step of switch_root and the exec is attempted at most
\* once and there are no more share mounts than share tokens; in a run
\* without a fatal failure (the process was replaced) each is attempted
\* exactly once, one share mount per token
C16_NoRetry ==
    /\ \A n \in CallCounts : n <= 1
    /\ Len(AuxMounts) <= Len(ExpectedShares)
    /\ pc = "replaced" =>
          /\ \A n \in CallCountsDue : n = 1
          /\ Len(AuxMounts) = Len(ExpectedShares)

\* a run without a fatal failure, with a module whose insertion failed
C16_Witness ==
    /\ pc = "replaced"
    /\ \E i \in 1..Len(ops) : ops[i].op = "init_module" /\ ops[i].err # "OK"

\* what the claim says a failure leaves as it is
Kept(k) ==
    [mounts |-> k.mounts, nodes |-> k.nodes, dirs |-> k.dirs, modules |-> k.modules,
     root |-> k.root, cwd |-> k.cwd]

\* C17: nothing is undone on a failure: the step in which a call fails, and
\* the return of main after it, leave the mounts, the device nodes and
\* symlinks, the directories, the loaded modules and the process's root and
\* working directory as they were, and no call is made after the failed one
C17_NoRollback ==
    [][ pc' \in {"failed", "exited"} =>
           /\ Kept(kernel') = Kept(kernel)
           /\ pc = "failed" => ops' = ops ]_vars

\* main has returned after a failure of the relocation, with the mounts of
\* the earlier stages and a module still in place
C17_Witness ==
    /\ pc = "exited"
    /\ LastOp.op = "umount" /\ LastOp.err # "OK"
    /\ kernel.modules # <<>>
    /\ \E m \in kernel.mounts : m.fs = "virtiofs:rootfs" /\ m.mp = <<"sysroot">>
    /\ \E m \in kernel.mounts : m.fs = "proc" /\ m.mp = <<"proc">>
    /\ \E n \in kernel.nodes : n.fs = "devtmpfs" /\ n.path = <<"kvm">>

\* the stage of do_init a call belongs to, in the order of the claim; the
\* directory /run/mnt is made between the mounts and the read
Stage(o) ==
    IF o.op = "mkdir_p" /\ o.target \in Range(required_dirs) THEN 1
    ELSE IF IsApiMount(o) \/ (o.op = "mkdir_p" /\ o.target = "/run/mnt") THEN 2
    ELSE IF o.op = "read" /\ o.target = "/proc/cmdline" THEN 3
    ELSE IF o.op \in {"mknod", "symlink"} THEN 4
    ELSE IF o.op = "read_dir" \/ IsModuleOp(o) THEN 5
    ELSE IF IsRootMount(o) THEN 6
    ELSE IF IsAuxMount(o) \/ o.op = "mkdir_p" THEN 7
    ELSE IF IsRelocation(o) THEN 8
    ELSE IF IsSwitchRootOp(o) THEN 9
    ELSE 10

StageOps(n) == SelectSeq(ops, LAMBDA o : Stage(o) = n)

\* every call of the stage has been made
StageThrough(n) ==
    CASE n = 1 -> Len(StageOps(1)) = Len(required_dirs)
      [] n = 2 -> Len(StageOps(2)) = Len(api_mounts) + 1
      [] n = 3 -> Len(StageOps(3)) = 1
      [] n = 4 -> Len(StageOps(4)) = Len(devices) + Len(symlinks)
      [] n = 5 -> /\ ModulesDirPresent => \E i \in 1..Len(ops) : ops[i].op = "read_dir"
                  /\ Len(ModuleAttempts) = Len(module_paths)
                  /\ entries = {}
      [] n = 6 -> Len(StageOps(6)) = 1
      [] n = 7 -> Len(AuxMounts) = Len(ExpectedShares)
      [] n = 8 -> Len(StageOps(8)) = Len(surviving_mounts)
      [] n = 9 -> Len(StageOps(9)) = 5
      [] OTHER -> TRUE

\* C18: the calls of do_init come stage by stage in the order directories,
\* pseudo-filesystem mounts, command-line read, device nodes, modules, root
\* share, auxiliary shares, relocation, switch_root, exec: a call of a stage
\* is made only when every call of every earlier stage has been made and,
\* but for the read and the insertion of a module, has succeeded; so every
\* module of the list has been attempted before the first virtiofs mount
C18_StageOrder ==
    /\ \A i \in 1..(Len(ops) - 1) :
          /\ Stage(ops[i]) <= Stage(ops[i + 1])
          /\ ops[i].err = "OK" \/ IsModuleOp(ops[i])
    /\ ops # <<>> => \A n \in 1..(Stage(LastOp) - 1) : StageThrough(n)
    /\ (\E j \in 1..Len(ops) : ops[j].fstype = "virtiofs") =>
          Len(ModuleAttempts) = Len(module_paths)
    /\ \A i \in 1..Len(ops) :
          IsModuleOp(ops[i]) => \A j \in 1..i : ops[j].fstype # "virtiofs"

\* every stage has run, the modules and the auxiliary shares among them
C18_Witness ==
    /\ pc = "replaced"
    /\ \A n \in 1..10 : StageOps(n) # <<>>

\* the positions of do_init up to the test of the command line for debug
UpToCmdlineRead == {"mkdirs", "mount_apis", "mkdir_run_mnt", "read_cmdline", "check_debug"}

\* the trace lines of mount_apis and of read_cmdline
EarlyTraces ==
    {"Mounting " \o a.target : a \in Range(api_mounts)} \cup {"Creating /proc/cmdline"}

\* the command line asks for debug
DebugAsked == \E i \in TokenStarts(proc_cmdline) : HasKey(TokenAt(proc_cmdline, i), "debug")

\* C19: the debug flag is false up to and including the read of the command
\* line; it changes only from false to true, only at the test that follows
\* the read and only when the command line has a token debug or debug=...;
\* it is never reset; so the trace lines of the pseudo-filesystem mounts and
\* of the read of the command line are never written, nor any line before
\* the flag is set
C19_DebugFlag ==
    /\ [](/\ pc \in UpToCmdlineRead => (~DEBUG /\ out = <<>>)
          /\ DEBUG => DebugAsked
          /\ \A i \in 1..Len(out) : out[i].text \notin EarlyTraces)
    /\ [][/\ DEBUG => DEBUG'
          /\ DEBUG' # DEBUG => (pc = "check_debug" /\ DebugAsked)]_vars

\* debug was asked for and is on: the first line traced is that of the
\* device nodes
C19_Witness ==
    /\ DEBUG
    /\ \E i \in 1..Len(ops) : ops[i].op = "mount" /\ ops[i].fstype = "virtiofs"
    /\ out # <<>>
    /\ out[1] = [fd |-> 1, text |-> "Creating static device nodes"]

\* the exec has been attempted, or is the next step
AtExec == pc = "exec" \/ \E i \in 1..Len(ops) : ops[i].op = "execv"

\* C20: the exec is attempted only when the root share has been mounted at
\* /sysroot, each of the five surviving mountpoints has been moved or
\* unmounted, and switch_root has returned success: the process's root and
\* working directory are the root directory of that share, not a directory
\* of the initramfs
C20_ExecOnlyInNewRoot ==
    AtExec =>
       /\ \E i \in 1..Len(ops) : IsRootMount(ops[i]) /\ ops[i].err = "OK"
       /\ RelocationDone
       /\ \A i \in 1..5 : Relocations[i].err = "OK"
       /\ SwitchRootOk
       /\ \A i \in 1..Len(ops) :
             ops[i].op = "execv" =>
                \A j \in 1..Len(ops) :
                   (IsRootMount(ops[j]) \/ IsRelocation(ops[j]) \/ IsSwitchRootOp(ops[j]))
                      => j < i
       /\ kernel.root = kernel.cwd
       /\ kernel.root.path = <<>>
       /\ kernel.root.mnt # RootMount.id
       /\ FsAt(kernel, kernel.root) = NewRootFs
       /\ FsAt(kernel, kernel.root) # RootMount.fs

\* the exec was attempted, in a new root that holds none of the surviving
\* mountpoints
C20_Witness ==
    /\ \E i \in 1..Len(ops) : ops[i].op = "execv"
    /\ \A i \in 1..Len(Relocations) : Relocations[i].op = "umount"
    /\ kernel.root.mnt # RootMount.id

====
